---- MODULE Spec2Model ----
(***************************************************************************)
(* Model of modules/niwa.py (class Niwa): the per-device response caches   *)
(* for tide and UV data, the UV pagination sessions, and the two public    *)
(* operations get_tide_data and get_uv_data.                               *)
(*                                                                         *)
(* Time is counted in seconds.  One public call is modelled at a single    *)
(* instant `now`; time passes between calls (Tick).  A cache entry is the  *)
(* tuple (data, timestamp, deviceID) of the source, written as a record    *)
(* [data, ts, dev]; a session is the dict {deviceID, last_access, begin}.  *)
(* Upstream payloads are the documented success bodies (non-empty JSON     *)
(* objects, hence truthy): a tide payload is identified by an id, a UV     *)
(* payload by the number n of forecast records it carries.                 *)
(***************************************************************************)
EXTENDS Integers, Sequences, FiniteSets

----------------------------------------------------------------------------
(* Program constants (Niwa.__init__)                                       *)

uv_records_per_response == 4

cache_length_hours == 8

\* The source sets cache_max_records = 150; the model scales it down so that
\* the overflow branch of the store operation is reached.
cache_max_records == 2

----------------------------------------------------------------------------
(* Bounds of the model                                                     *)

MaxTicks == 3

Devices == {1, 2}

Handlers == {1, 2}

TTL == cache_length_hours * 3600

\* Time advances in steps of half a TTL: ages 0, TTL/2, TTL, 3*TTL/2, ...
TickStep == TTL \div 2

TideIds == {1, 2}

UvLens == {4, 10}

Failures == {"network", "status", "json"}

----------------------------------------------------------------------------
(* Values                                                                  *)

None == [kind |-> "none", n |-> 0]

\* settings.ERROR_FETCHING_DATA, as the value a retrieve/query returns
ERROR_FETCHING_DATA == [kind |-> "error", n |-> 0]

TidePayloads == {[kind |-> "tide", n |-> i] : i \in TideIds}

UvPayloads == {[kind |-> "uv", n |-> n] : n \in UvLens}

\* An upstream HTTP exchange: a success body or one of the failures
TideResponses == {[ok |-> TRUE, body |-> p, why |-> "ok"] : p \in TidePayloads}
                 \cup {[ok |-> FALSE, body |-> None, why |-> f] : f \in Failures}

UvResponses == {[ok |-> TRUE, body |-> p, why |-> "ok"] : p \in UvPayloads}
               \cup {[ok |-> FALSE, body |-> None, why |-> f] : f \in Failures}

\* Replies of the public operations
ErrorReply == [kind |-> "ERROR_FETCHING_DATA", recs |-> <<>>, more |-> FALSE]

NoReply == [kind |-> "none", recs |-> <<>>, more |-> FALSE]

NoSession == [deviceID |-> 0, last_access |-> 0, begin |-> 0]

Min(a, b) == IF a < b THEN a ELSE b

\* Python list[b:e] for 0 <= b, 0 <= e
PySlice(s, b, e) == SubSeq(s, b + 1, Min(e, Len(s)))

\* list.pop(0) in the place of list.remove(x): drops the head of the list
RemoveHead(s, x) == SubSeq(s, 2, Len(s))

\* Python list.remove(x): drops the first element equal to x
RemoveFirst(s, x) ==
    LET i == CHOOSE k \in 1..Len(s) : s[k] = x /\ \A j \in 1..(k - 1) : s[j] # x
    IN  SubSeq(s, 1, i - 1) \o SubSeq(s, i + 1, Len(s))

\* now: the clock; the two cache lists and the session list of the Niwa object;
\* last: what the most recent public call did (a history variable);
\* uv_run: the replies of one device's current run of paging calls (history);
\* handlers: the position and locals of each concurrent store (SpecConc only);
\* probe: the argument and the result of one application of a function of the
\* class to a value drawn at the start (SpecRisk and SpecLookup only)
VARIABLES now, tide_data_cache, uv_data_cache, uv_sessions, last, uv_run, handlers,
          probe

vars == <<now, tide_data_cache, uv_data_cache, uv_sessions, last, uv_run, handlers,
          probe>>

----------------------------------------------------------------------------
(* Session tracker                                                         *)

\* line 30: the idle test of __prune_uv_sessions
session_expired(session, t) == (t - session.last_access) > cache_length_hours * 3600

\* __prune_uv_sessions: `for session in self.uv_sessions` walks the list by
\* index while remove() shifts it, so the element after a removed one is skipped.
RECURSIVE prune_from(_, _, _)
prune_from(sessions, i, t) ==
    IF i > Len(sessions) THEN sessions
    ELSE IF session_expired(sessions[i], t)
         THEN prune_from(RemoveFirst(sessions, sessions[i]), i + 1, t)
         ELSE prune_from(sessions, i + 1, t)

prune_uv_sessions(sessions, t) == prune_from(sessions, 1, t)

\* __get_uv_session without the search for the device's session
get_uv_session_always_new(sessions, deviceID, t) ==
    LET pruned == prune_uv_sessions(sessions, t)
    IN  [sessions |-> Append(pruned, [deviceID |-> deviceID,
                                      last_access |-> t,
                                      begin |-> 0]),
         idx |-> Len(pruned) + 1]

\* __get_uv_session stamping the session it finds with the time of the lookup
get_uv_session_touching(sessions, deviceID, t) ==
    LET pruned == prune_uv_sessions(sessions, t)
        found  == {i \in 1..Len(pruned) : pruned[i].deviceID = deviceID}
        idx    == CHOOSE i \in found : \A j \in found : i <= j
    IN  IF found # {}
        THEN [sessions |-> [pruned EXCEPT ![idx].last_access = t], idx |-> idx]
        ELSE [sessions |-> Append(pruned, [deviceID |-> deviceID,
                                           last_access |-> t,
                                           begin |-> 0]),
              idx |-> Len(pruned) + 1]

\* __get_uv_session: the list after the call and the index of the session returned
get_uv_session(sessions, deviceID, t) ==
    LET pruned == prune_uv_sessions(sessions, t)
        found  == {i \in 1..Len(pruned) : pruned[i].deviceID = deviceID}
    IN  IF found # {}
        THEN [sessions |-> pruned,
              idx |-> CHOOSE i \in found : \A j \in found : i <= j]
        ELSE [sessions |-> Append(pruned, [deviceID |-> deviceID,
                                           last_access |-> t,
                                           begin |-> 0]),
              idx |-> Len(pruned) + 1]

\* __update_uv_session; t is datetime.now() inside the nested __get_uv_session
update_uv_session(sessions, deviceID, last_access, begin, t) ==
    LET r == get_uv_session(sessions, deviceID, t)
    IN  IF r.idx # 0
        THEN [r.sessions EXCEPT ![r.idx] = [deviceID |-> deviceID,
                                            last_access |-> last_access,
                                            begin |-> begin]]
        ELSE Append(r.sessions, [deviceID |-> deviceID,
                                 last_access |-> last_access,
                                 begin |-> begin])

----------------------------------------------------------------------------
(* Response caches                                                         *)

\* line 129 / 288: elapsed_hours < cache_length_hours
cache_entry_live(entry, t) == (t - entry.ts) < cache_length_hours * 3600

\* the trim keeping the first cache_max_records entries (cache[:max])
purge_excess_keep_first(cache) ==
    IF Len(cache) > cache_max_records
    THEN SubSeq(cache, 1, cache_max_records)
    ELSE cache

\* lines 137-138 / 259-260: keep the last cache_max_records entries
purge_excess(cache) ==
    IF Len(cache) > cache_max_records
    THEN SubSeq(cache, Len(cache) - cache_max_records + 1, Len(cache))
    ELSE cache

\* purge_old with the age test off by one (<= for <)
purge_old_inclusive(cache, t) ==
    LET Keep(entry) == (t - entry.ts) <= cache_length_hours * 3600
    IN  SelectSeq(cache, Keep)

\* lines 141-143 / 263-265: keep the entries younger than the cache length
purge_old(cache, t) ==
    LET Keep(entry) == (t - entry.ts) < cache_length_hours * 3600
    IN  SelectSeq(cache, Keep)

\* __cache_tide_data
cache_tide_data(cache, tide_data, deviceID, t) ==
    purge_old(purge_excess(Append(cache, [data |-> tide_data, ts |-> t, dev |-> deviceID])), t)

\* __cache_uv_data
cache_uv_data(cache, uv_data, deviceID, t) ==
    purge_old(purge_excess(Append(cache, [data |-> uv_data, ts |-> t, dev |-> deviceID])), t)

\* the scan shared by __check_tide_data_cache and __check_uv_data_cache:
\* the first entry of the device that is younger than the cache length
first_live(cache, deviceID, t) ==
    LET hits == {i \in 1..Len(cache) :
                    cache[i].dev = deviceID /\ cache_entry_live(cache[i], t)}
    IN  IF hits = {} THEN None
        ELSE cache[CHOOSE i \in hits : \A j \in hits : i <= j].data

\* the scan with the age comparison inverted
first_stale(cache, deviceID, t) ==
    LET hits == {i \in 1..Len(cache) :
                    cache[i].dev = deviceID /\ ~cache_entry_live(cache[i], t)}
    IN  IF hits = {} THEN None
        ELSE cache[CHOOSE i \in hits : \A j \in hits : i <= j].data

check_tide_data_cache_inverted(cache, deviceID, t) == first_stale(cache, deviceID, t)

\* __check_tide_data_cache
check_tide_data_cache(cache, deviceID, t) == first_live(cache, deviceID, t)

\* __check_uv_data_cache
check_uv_data_cache(cache, deviceID, t) == first_live(cache, deviceID, t)

\* __query_tide_data: one HTTP request; on success the body is cached here
\* (line 116) and returned; any exception gives the sentinel
query_tide_data(cache, resp, deviceID, t) ==
    IF resp.ok
    THEN [cache |-> cache_tide_data(cache, resp.body, deviceID, t), data |-> resp.body]
    ELSE [cache |-> cache, data |-> ERROR_FETCHING_DATA]

\* __retrieve_tide_data
retrieve_tide_data(cache, resp, deviceID, t) ==
    LET cached_data == check_tide_data_cache(cache, deviceID, t)
    IN  IF cached_data # None
        THEN [cache |-> cache, data |-> cached_data, reqs |-> 0, stored |-> FALSE]
        ELSE LET q == query_tide_data(cache, resp, deviceID, t)
             IN  IF q.data # ERROR_FETCHING_DATA
                 THEN [cache |-> cache_tide_data(q.cache, q.data, deviceID, t),
                       data |-> q.data, reqs |-> 1, stored |-> TRUE]
                 ELSE [cache |-> q.cache, data |-> q.data, reqs |-> 1, stored |-> FALSE]

\* __query_uv_data: one HTTP request, nothing cached here
query_uv_data(resp) == IF resp.ok THEN resp.body ELSE ERROR_FETCHING_DATA

\* __retrieve_uv_data without the test of the sentinel before caching
retrieve_uv_data_caching_errors(cache, resp, deviceID, t) ==
    LET cached_data == check_uv_data_cache(cache, deviceID, t)
    IN  IF cached_data # None
        THEN [cache |-> cache, data |-> cached_data, reqs |-> 0, stored |-> FALSE]
        ELSE LET uv_data == query_uv_data(resp)
             IN  [cache |-> cache_uv_data(cache, uv_data, deviceID, t),
                  data |-> uv_data, reqs |-> 1, stored |-> uv_data # ERROR_FETCHING_DATA]

\* __retrieve_uv_data
retrieve_uv_data(cache, resp, deviceID, t) ==
    LET cached_data == check_uv_data_cache(cache, deviceID, t)
    IN  IF cached_data # None
        THEN [cache |-> cache, data |-> cached_data, reqs |-> 0, stored |-> FALSE]
        ELSE LET uv_data == query_uv_data(resp)
             IN  IF uv_data # ERROR_FETCHING_DATA
                 THEN [cache |-> cache_uv_data(cache, uv_data, deviceID, t),
                       data |-> uv_data, reqs |-> 1, stored |-> TRUE]
                 ELSE [cache |-> cache, data |-> uv_data, reqs |-> 1, stored |-> FALSE]

----------------------------------------------------------------------------
(* UV values and their risk category                                       *)

\* What a `value` of a forecast record can be once the JSON body is decoded:
\* None (null), a number, a string, or a container (list or dict).  Numbers
\* are kept in tenths (29 is 2.9); a string is numeric when float() parses
\* its text, and then v is the number it reads as.
MaxUvTenths == 120

UvNone == [type |-> "NoneType", numeric |-> FALSE, v |-> 0]

UvNumbers == {[type |-> "float", numeric |-> TRUE, v |-> n] : n \in (-MaxUvTenths)..MaxUvTenths}

UvStrings ==
    {[type |-> "str", numeric |-> TRUE, v |-> n] : n \in (-MaxUvTenths)..MaxUvTenths}
        \cup {[type |-> "str", numeric |-> FALSE, v |-> 0]}

UvContainer == [type |-> "list", numeric |-> FALSE, v |-> 0]

UvValues == {UvNone, UvContainer} \cup UvNumbers \cup UvStrings

NoText == [raw |-> FALSE, neg |-> FALSE, whole |-> 0, tenth |-> 0]

Returned(text, risk) == [raised |-> "none", text |-> text, risk |-> risk]

Raised(exception) == [raised |-> exception, text |-> NoText, risk |-> "none"]

\* float(x) of line 160
py_float(x) ==
    IF x.type = "float" \/ (x.type = "str" /\ x.numeric) THEN [raised |-> "none", v |-> x.v]
    ELSE IF x.type = "str" THEN [raised |-> "ValueError", v |-> 0]
    ELSE [raised |-> "TypeError", v |-> 0]

\* '{0:3.1f}'.format(x) of line 188: the digits of a number, ValueError for a
\* string (format code 'f' is unknown to str), TypeError for None and containers
py_format_1f(x) ==
    LET a == IF x.v < 0 THEN -x.v ELSE x.v
    IN  IF x.type = "float"
        THEN [raised |-> "none",
              text |-> [raw |-> FALSE, neg |-> x.v < 0, whole |-> a \div 10, tenth |-> a % 10]]
        ELSE IF x.type = "str" THEN [raised |-> "ValueError", text |-> NoText]
        ELSE [raised |-> "TypeError", text |-> NoText]

\* str(x) as the f-string of line 222 takes it: the value as it came
py_str(x) ==
    LET a == IF x.v < 0 THEN -x.v ELSE x.v
    IN  [raw |-> TRUE, neg |-> x.v < 0, whole |-> a \div 10, tenth |-> a % 10]

\* lines 164-173: the category of a number
risk_of(tenths) ==
    IF tenths < 30 THEN "Low"
    ELSE IF 30 <= tenths /\ tenths < 60 THEN "Medium"
    ELSE IF 60 <= tenths /\ tenths < 80 THEN "High"
    ELSE IF 80 <= tenths /\ tenths < 110 THEN "Very High"
    ELSE "Extreme"

\* get_uv_risk_string: only ValueError is caught around float()
get_uv_risk_string(uv_index) ==
    IF uv_index = UvNone THEN Returned(NoText, "No data")
    ELSE LET f == py_float(uv_index)
         IN  IF f.raised = "ValueError" THEN Returned(NoText, "Invalid data")
             ELSE IF f.raised # "none" THEN Raised(f.raised)
             ELSE Returned(NoText, risk_of(f.v))

\* lines 187-189 for one record of products[1]: the value is formatted before
\* its risk is looked up, and nothing up to get_uv_data catches an exception
format_clear_sky(value) ==
    LET t == py_format_1f(value)
        r == get_uv_risk_string(value)
    IN  IF t.raised # "none" THEN Raised(t.raised)
        ELSE IF r.raised # "none" THEN r
        ELSE Returned(t.text, r.risk)

\* lines 193-195 and 222 for one record of products[0]: the value is kept as
\* it came and rendered by the f-string
format_cloudy_sky(value) ==
    LET r == get_uv_risk_string(value)
    IN  IF r.raised # "none" THEN r
        ELSE Returned(py_str(value), r.risk)

----------------------------------------------------------------------------
(* Formatters                                                              *)

\* __format_tide_data: the text rendered from one payload
format_tide_data(tidedata) == [kind |-> "tide_text", recs |-> <<tidedata.n>>, more |-> FALSE]

\* the cursor left at the end of the data instead of being reset
next_begin_no_reset(begin, total) ==
    IF begin + uv_records_per_response > total THEN total
    ELSE begin + uv_records_per_response

\* a cursor at or past the end of the data left where it is
next_begin_keep_stale(begin, total) ==
    IF begin >= total THEN begin
    ELSE IF begin + uv_records_per_response > total THEN 0
    ELSE begin + uv_records_per_response

\* the cursor reset one window early, when the window ends exactly at the end
next_begin_reset_at_end(begin, total) ==
    IF begin + uv_records_per_response >= total THEN 0
    ELSE begin + uv_records_per_response

\* the begin of the window stored in the place of its end
next_begin_stays(begin, total) ==
    IF begin + uv_records_per_response > total THEN 0
    ELSE begin

\* lines 212-217: the cursor written to the session
next_begin(begin, total) ==
    IF begin + uv_records_per_response > total THEN 0
    ELSE begin + uv_records_per_response

\* lines 208-213: the end of the rendered window
window_end(begin, total) ==
    IF begin + uv_records_per_response > total THEN total
    ELSE begin + uv_records_per_response

\* __format_uv_data: uv_dict holds one record per forecast time (numbered
\* 0..n-1 here); the reply lists the records rendered and the closing line
format_uv_data(sessions, uvdata, deviceID, begin, t) ==
    LET uv_dict == [i \in 1..uvdata.n |-> i - 1]
        isEnd   == begin + uv_records_per_response > Len(uv_dict)
        end     == window_end(begin, Len(uv_dict))
    IN  [sessions |-> update_uv_session(sessions, deviceID, t,
                                        next_begin(begin, Len(uv_dict)), t),
         out |-> [kind |-> "uv_text",
                  recs |-> PySlice(uv_dict, begin, end),
                  more |-> ~isEnd]]

----------------------------------------------------------------------------
(* The state machine of sequential calls                                   *)

NoCall == [op |-> "none", dev |-> 0, time |-> 0, upstream |-> "none", reqs |-> 0,
           stored |-> FALSE, full |-> FALSE, data |-> None, out |-> NoReply,
           session |-> NoSession]

NoRun == [dev |-> 0, n |-> 0, wins |-> <<>>]

NoEntry == [data |-> None, ts |-> 0, dev |-> 0]

Idle == [pc |-> "idle", kind |-> "none", entry |-> NoEntry, tmp |-> <<>>]

NoProbe == [fn |-> "none"]

Init ==
    /\ now = 0
    /\ tide_data_cache = <<>>
    /\ uv_data_cache = <<>>
    /\ uv_sessions = <<>>
    /\ last = NoCall
    /\ uv_run = NoRun
    /\ handlers = [h \in Handlers |-> Idle]
    /\ probe = NoProbe

Tick ==
    /\ now + TickStep <= MaxTicks * TickStep
    /\ now' = now + TickStep
    /\ UNCHANGED <<tide_data_cache, uv_data_cache, uv_sessions, last, uv_run, handlers,
                   probe>>

\* what the upstream did in a call that made `reqs` requests and got `resp`
Upstream(reqs, resp) == IF reqs = 0 THEN "none" ELSE IF resp.ok THEN "ok" ELSE "failed"

\* get_tide_data(lat, long, deviceID) with the upstream answering resp
TideCall(deviceID, resp) ==
    LET r == retrieve_tide_data(tide_data_cache, resp, deviceID, now)
    IN  /\ resp.ok \/ r.reqs = 1
        /\ tide_data_cache' = r.cache
        /\ last' = [op |-> "tide", dev |-> deviceID, time |-> now,
                    upstream |-> Upstream(r.reqs, resp), reqs |-> r.reqs,
                    stored |-> r.stored,
                    full |-> r.stored /\ Len(tide_data_cache) >= cache_max_records,
                    data |-> r.data,
                    out |-> IF r.data = ERROR_FETCHING_DATA THEN ErrorReply
                            ELSE format_tide_data(r.data),
                    session |-> NoSession]
        /\ UNCHANGED <<now, uv_data_cache, uv_sessions>>

\* get_uv_data(lat, long, deviceID) with the upstream answering resp
UvCall(deviceID, resp) ==
    LET s == get_uv_session(uv_sessions, deviceID, now)
        session == s.sessions[s.idx]
        r == retrieve_uv_data(uv_data_cache, resp, deviceID, now)
        f == format_uv_data(s.sessions, r.data, deviceID, session.begin, now)
    IN  /\ resp.ok \/ r.reqs = 1
        /\ uv_data_cache' = r.cache
        /\ uv_sessions' = IF r.data = ERROR_FETCHING_DATA THEN s.sessions ELSE f.sessions
        /\ last' = [op |-> "uv", dev |-> deviceID, time |-> now,
                    upstream |-> Upstream(r.reqs, resp), reqs |-> r.reqs,
                    stored |-> r.stored,
                    full |-> r.stored /\ Len(uv_data_cache) >= cache_max_records,
                    data |-> r.data,
                    out |-> IF r.data = ERROR_FETCHING_DATA THEN ErrorReply ELSE f.out,
                    session |-> session]
        /\ UNCHANGED <<now, tide_data_cache>>

GetTideData(deviceID, resp) ==
    TideCall(deviceID, resp) /\ UNCHANGED <<uv_run, handlers, probe>>

GetUvData(deviceID, resp) ==
    UvCall(deviceID, resp) /\ UNCHANGED <<uv_run, handlers, probe>>

\* Both operations on the one Niwa object.  To keep the product of the two
\* subsystems small the upstream serves one body per endpoint here and tide
\* requests come from one device; SpecTide and SpecUv lift both restrictions
\* for each subsystem on its own.
FixedTide == {r \in TideResponses : ~r.ok \/ r.body.n = 1}

FixedUv == {r \in UvResponses : ~r.ok \/ r.body.n = uv_records_per_response}

TideDevices == {1}

Next ==
    \/ Tick
    \/ \E d \in TideDevices, resp \in FixedTide : GetTideData(d, resp)
    \/ \E d \in Devices, resp \in FixedUv : GetUvData(d, resp)

Spec == Init /\ [][Next]_vars

\* Tide requests only, any body
NextTide ==
    \/ Tick
    \/ \E d \in Devices, resp \in TideResponses : GetTideData(d, resp)

SpecTide == Init /\ [][NextTide]_vars

\* UV requests only, any body
NextUv ==
    \/ Tick
    \/ \E d \in Devices, resp \in UvResponses : GetUvData(d, resp)

SpecUv == Init /\ [][NextUv]_vars

\* The UV requests of one device that goes on making calls: any call may
\* fail, but calls that the cache or the upstream answers with a forecast keep
\* coming.  The clock stops at MaxTicks, so from some point on the device's
\* calls follow one another within the TTL.
PagingDevices == {1}

SuccessfulUvCall(deviceID) ==
    \E resp \in UvResponses : resp.ok /\ GetUvData(deviceID, resp)

NextLive ==
    \/ Tick
    \/ \E d \in PagingDevices, resp \in UvResponses : GetUvData(d, resp)

SpecLive ==
    /\ Init /\ [][NextLive]_vars
    /\ \A d \in PagingDevices : WF_vars(SuccessfulUvCall(d))

\* UV requests only, with the record of one device's paging run.  A run is a
\* sequence of successful replies to one device over forecasts of one length,
\* each call made less than the TTL after the device's previous one, that
\* starts with cursor 0 and is followed up to the reply after the completing
\* one.
RunOver(run) == \E i \in 1..(Len(run.wins) - 1) : ~run.wins[i].more

RunAfter(run, call, in_time) ==
    LET w == [begin |-> call.session.begin, recs |-> call.out.recs, more |-> call.out.more]
    IN  IF call.out = ErrorReply
        THEN IF call.dev = run.dev THEN NoRun ELSE run
        ELSE IF call.dev = run.dev /\ call.data.n = run.n /\ in_time /\ ~RunOver(run)
        THEN [run EXCEPT !.wins = Append(@, w)]
        ELSE IF call.dev # run.dev /\ run.dev # 0 /\ ~RunOver(run)
        THEN run
        ELSE IF w.begin = 0
        THEN [dev |-> call.dev, n |-> call.data.n, wins |-> <<w>>]
        ELSE NoRun

GetUvDataPaged(deviceID, resp) ==
    /\ UvCall(deviceID, resp)
    /\ uv_run' = RunAfter(uv_run, last',
                          \E i \in 1..Len(uv_sessions) :
                              /\ uv_sessions[i].deviceID = deviceID
                              /\ now - uv_sessions[i].last_access < TTL)
    /\ UNCHANGED <<handlers, probe>>

NextPaging ==
    \/ Tick
    \/ \E d \in Devices, resp \in UvResponses : GetUvDataPaged(d, resp)

SpecPaging == Init /\ [][NextPaging]_vars

----------------------------------------------------------------------------
(* Concurrent stores: each handler runs __cache_tide_data or                *)
(* __cache_uv_data once, one statement at a time.  The source takes no     *)
(* lock, so the statements of the two handlers interleave freely; the list *)
(* comprehension of the last statement is evaluated (read) before its      *)
(* result is assigned (write).                                             *)

Payloads(kind) == IF kind = "tide" THEN TidePayloads ELSE UvPayloads

StoreBegin(h, kind, deviceID, data) ==
    /\ handlers[h].pc = "idle"
    /\ handlers' = [handlers EXCEPT ![h] =
          [pc |-> "append", kind |-> kind,
           entry |-> [data |-> data, ts |-> now, dev |-> deviceID], tmp |-> <<>>]]
    /\ UNCHANGED <<now, tide_data_cache, uv_data_cache, uv_sessions, last, uv_run, probe>>

\* line 134 / 256
StoreAppend(h) ==
    /\ handlers[h].pc = "append"
    /\ IF handlers[h].kind = "tide"
       THEN /\ tide_data_cache' = Append(tide_data_cache, handlers[h].entry)
            /\ UNCHANGED uv_data_cache
       ELSE /\ uv_data_cache' = Append(uv_data_cache, handlers[h].entry)
            /\ UNCHANGED tide_data_cache
    /\ handlers' = [handlers EXCEPT ![h].pc = "excess"]
    /\ UNCHANGED <<now, uv_sessions, last, uv_run, probe>>

\* lines 137-138 / 259-260
StorePurgeExcess(h) ==
    /\ handlers[h].pc = "excess"
    /\ IF handlers[h].kind = "tide"
       THEN /\ tide_data_cache' = purge_excess(tide_data_cache)
            /\ UNCHANGED uv_data_cache
       ELSE /\ uv_data_cache' = purge_excess(uv_data_cache)
            /\ UNCHANGED tide_data_cache
    /\ handlers' = [handlers EXCEPT ![h].pc = "old_read"]
    /\ UNCHANGED <<now, uv_sessions, last, uv_run, probe>>

\* lines 141-143 / 263-265, the right-hand side
StorePurgeOldRead(h) ==
    /\ handlers[h].pc = "old_read"
    /\ handlers' = [handlers EXCEPT
          ![h].pc = "old_write",
          ![h].tmp = purge_old(IF handlers[h].kind = "tide" THEN tide_data_cache
                               ELSE uv_data_cache, now)]
    /\ UNCHANGED <<now, tide_data_cache, uv_data_cache, uv_sessions, last, uv_run, probe>>

\* lines 142 / 264, the assignment
StorePurgeOldWrite(h) ==
    /\ handlers[h].pc = "old_write"
    /\ IF handlers[h].kind = "tide"
       THEN /\ tide_data_cache' = handlers[h].tmp
            /\ UNCHANGED uv_data_cache
       ELSE /\ uv_data_cache' = handlers[h].tmp
            /\ UNCHANGED tide_data_cache
    /\ handlers' = [handlers EXCEPT ![h].pc = "done", ![h].tmp = <<>>]
    /\ UNCHANGED <<now, uv_sessions, last, uv_run, probe>>

NextConc ==
    \/ \E h \in Handlers, kind \in {"tide", "uv"}, d \in Devices :
          \E data \in Payloads(kind) : StoreBegin(h, kind, d, data)
    \/ \E h \in Handlers : StoreAppend(h)
    \/ \E h \in Handlers : StorePurgeExcess(h)
    \/ \E h \in Handlers : StorePurgeOldRead(h)
    \/ \E h \in Handlers : StorePurgeOldWrite(h)

SpecConc == Init /\ [][NextConc]_vars

----------------------------------------------------------------------------
(* The risk category and the rendering of one UV value                     *)

Applied(fn, arg, out) == [fn |-> fn, arg |-> arg, out |-> out]

\* the object as constructed, and a value about to be handed to it
InitRisk ==
    /\ now = 0
    /\ tide_data_cache = <<>>
    /\ uv_data_cache = <<>>
    /\ uv_sessions = <<>>
    /\ last = NoCall
    /\ uv_run = NoRun
    /\ handlers = [h \in Handlers |-> Idle]
    /\ \E x \in UvValues : probe = Applied("input", x, Returned(NoText, "none"))

Frame == UNCHANGED <<now, tide_data_cache, uv_data_cache, uv_sessions, last, uv_run, handlers>>

\* get_uv_risk_string(value)
RiskString ==
    /\ probe.fn = "input"
    /\ probe' = Applied("get_uv_risk_string", probe.arg, get_uv_risk_string(probe.arg))
    /\ Frame

\* get_uv_data over a forecast whose clear-sky record holds the value
FormatClearSky ==
    /\ probe.fn = "input"
    /\ probe' = Applied("clear_sky", probe.arg, format_clear_sky(probe.arg))
    /\ Frame

\* get_uv_data over a forecast whose cloudy-sky record holds the value
FormatCloudySky ==
    /\ probe.fn = "input"
    /\ probe' = Applied("cloudy_sky", probe.arg, format_cloudy_sky(probe.arg))
    /\ Frame

NextRisk == RiskString \/ FormatClearSky \/ FormatCloudySky

SpecRisk == InitRisk /\ [][NextRisk]_vars

----------------------------------------------------------------------------
(* The lookup applied to any content of a cache list                       *)

Instants == {k * TickStep : k \in 0..MaxTicks}

\* the lists of at most cache_max_records entries, appended in time order up
\* to t; several live entries of one device with different payloads are what
\* two handlers that both missed and both stored leave behind
CacheLists(kind, t) ==
    LET Entries == {e \in [data : Payloads(kind), ts : Instants, dev : Devices] : e.ts <= t}
    IN  {c \in UNION {[1..n -> Entries] : n \in 0..cache_max_records} :
            \A i \in 1..(Len(c) - 1) : c[i].ts <= c[i + 1].ts}

InitLookup ==
    /\ now \in Instants
    /\ \E kind \in {"tide", "uv"} :
          /\ tide_data_cache \in (IF kind = "tide" THEN CacheLists(kind, now) ELSE {<<>>})
          /\ uv_data_cache \in (IF kind = "uv" THEN CacheLists(kind, now) ELSE {<<>>})
    /\ uv_sessions = <<>>
    /\ last = NoCall
    /\ uv_run = NoRun
    /\ handlers = [h \in Handlers |-> Idle]
    /\ probe = NoProbe

\* __check_tide_data_cache(deviceID)
CheckTideDataCache(deviceID) ==
    /\ probe = NoProbe
    /\ probe' = Applied("check_tide_data_cache", deviceID,
                        check_tide_data_cache(tide_data_cache, deviceID, now))
    /\ Frame

\* __check_uv_data_cache(deviceID)
CheckUvDataCache(deviceID) ==
    /\ probe = NoProbe
    /\ probe' = Applied("check_uv_data_cache", deviceID,
                        check_uv_data_cache(uv_data_cache, deviceID, now))
    /\ Frame

NextLookup ==
    \/ \E d \in Devices : CheckTideDataCache(d)
    \/ \E d \in Devices : CheckUvDataCache(d)

SpecLookup == InitLookup /\ [][NextLookup]_vars

----------------------------------------------------------------------------
(* Claims                                                                  *)

CacheOf(op) == IF op = "tide" THEN tide_data_cache ELSE uv_data_cache

LiveEntries(cache, deviceID, t) ==
    {i \in 1..Len(cache) : cache[i].dev = deviceID /\ (t - cache[i].ts) < TTL}

\* C1: right after a call that ran the store operation, the cache stored into
\* holds at most cache_max_records entries, each of age strictly below the TTL.
C1_StoreBounded ==
    (last.stored /\ last.time = now) =>
        /\ Len(CacheOf(last.op)) <= cache_max_records
        /\ \A i \in 1..Len(CacheOf(last.op)) : now - CacheOf(last.op)[i].ts < TTL

\* a store has just run on a cache that was full and held expired entries,
\* so that both purges removed something
C1_Witness ==
    /\ last.stored /\ last.full /\ last.time = now
    /\ Len(CacheOf(last.op)) < cache_max_records

\* C2: each cache holds at most one non-expired entry per device.
C2_OneLiveEntryPerDevice ==
    \A d \in Devices :
        /\ Cardinality(LiveEntries(tide_data_cache, d, now)) <= 1
        /\ Cardinality(LiveEntries(uv_data_cache, d, now)) <= 1

\* C3: a get_tide_data call made less than the TTL after a call of the same
\* device that fetched and stored a payload issues no request and returns the
\* text of that payload: one upstream request for the two calls.
C3_SecondTideCallHits ==
    [][(/\ now' = now
        /\ last.op = "tide" /\ last.stored
        /\ last'.op = "tide" /\ last'.dev = last.dev
        /\ now - last.time < TTL)
       => (/\ last.reqs + last'.reqs = 1
           /\ last'.upstream = "none"
           /\ last'.out = format_tide_data(last.data)
           /\ tide_data_cache' = tide_data_cache)]_vars

\* a cache hit of a tide call made later than, and within the TTL of, the fetch
C3_Witness ==
    /\ last.op = "tide" /\ last.reqs = 0 /\ last.out.kind = "tide_text"
    /\ \E i \in 1..Len(tide_data_cache) :
          /\ tide_data_cache[i].dev = last.dev
          /\ tide_data_cache[i].ts < last.time
          /\ last.time - tide_data_cache[i].ts < TTL
          /\ last.out = format_tide_data(tide_data_cache[i].data)

\* C4: a call whose upstream request fails returns the sentinel after exactly
\* one request and leaves both caches as they were; the next call of the same
\* operation and device goes upstream again.
C4_FetchErrorNotCached ==
    [][(now' = now) =>
          /\ (last'.upstream = "failed") =>
                /\ last'.out = ErrorReply
                /\ last'.reqs = 1
                /\ tide_data_cache' = tide_data_cache
                /\ uv_data_cache' = uv_data_cache
          /\ (last.upstream = "failed" /\ last'.op = last.op /\ last'.dev = last.dev)
                => last'.reqs = 1]_vars

\* a failed fetch has been answered with the sentinel while both caches hold entries
C4_Witness ==
    /\ last.upstream = "failed" /\ last.out = ErrorReply
    /\ tide_data_cache # <<>> /\ uv_data_cache # <<>>

\* the records b, b+1, ..., e-1
Records(b, e) == [i \in 1..(IF e > b THEN e - b ELSE 0) |-> b + i - 1]

RECURSIVE Shown(_, _)
Shown(wins, k) == IF k = 0 THEN <<>> ELSE Shown(wins, k - 1) \o wins[k].recs

\* C5: over an unchanged forecast of N records, one device's successive calls
\* render consecutive windows of at most uv_records_per_response records from
\* record 0 on; the replies before the completing one say "Show More", the
\* completing one has shown every record once and in order, and the reply
\* after it starts at record 0 again.  For N = 10: [0,4) more, [4,8) more,
\* [8,10) complete, [0,4).
C5_Pagination ==
    LET w == uv_run.wins
        N == uv_run.n
        P == uv_records_per_response
    IN  /\ Len(w) >= 1 => w[1].begin = 0
        /\ \A i \in 1..Len(w) :
              /\ w[i].recs = Records(w[i].begin, Min(w[i].begin + P, N))
              /\ i > 1 => w[i].begin = IF w[i - 1].more
                                       THEN w[i - 1].begin + Len(w[i - 1].recs)
                                       ELSE 0
              /\ (~w[i].more /\ \A j \in 1..(i - 1) : w[j].more)
                    => Shown(w, i) = Records(0, N)
              /\ (\A j \in 1..i : w[j].more) => i * P <= N
        /\ N = 10 =>
              /\ Len(w) >= 1 => w[1] = [begin |-> 0, recs |-> <<0, 1, 2, 3>>, more |-> TRUE]
              /\ Len(w) >= 2 => w[2] = [begin |-> 4, recs |-> <<4, 5, 6, 7>>, more |-> TRUE]
              /\ Len(w) >= 3 => w[3] = [begin |-> 8, recs |-> <<8, 9>>, more |-> FALSE]
              /\ Len(w) >= 4 => w[4] = [begin |-> 0, recs |-> <<0, 1, 2, 3>>, more |-> TRUE]

\* four successive replies over a forecast of 10 records, with time passing
C5_Witness ==
    /\ uv_run.n = 10 /\ Len(uv_run.wins) = 4
    /\ now > 0 /\ last.time = now /\ last.dev = uv_run.dev

SessionsOf(sessions, deviceID) ==
    {i \in 1..Len(sessions) : sessions[i].deviceID = deviceID}

\* C6: after a get_uv_data call that returned text over a forecast of N
\* records, the cursor of the device's session is 0 or below N.
C6_CursorValidIndex ==
    (last.op = "uv" /\ last.out.kind = "uv_text") =>
        \A i \in SessionsOf(uv_sessions, last.dev) :
            uv_sessions[i].begin = 0 \/ uv_sessions[i].begin < last.data.n

\* C7: a session lookup for a device whose session has been idle for at least
\* the TTL returns a fresh session (cursor 0, last access now).
C7_IdleSessionReplaced ==
    [][\A d \in Devices :
          (/\ now' = now
           /\ last'.op = "uv" /\ last'.dev = d
           /\ \E i \in SessionsOf(uv_sessions, d) :
                 now - uv_sessions[i].last_access >= TTL)
          => last'.session = [deviceID |-> d, last_access |-> now, begin |-> 0]]_vars

\* C7 restricted to sessions idle for more than the TTL: the idle test of line
\* 30 is strict, and this weaker statement fails as well, on a session that
\* follows a removed one in the list.
C7_IdleBeyondTTL ==
    [][\A d \in Devices :
          (/\ now' = now
           /\ last'.op = "uv" /\ last'.dev = d
           /\ \E i \in SessionsOf(uv_sessions, d) :
                 now - uv_sessions[i].last_access > TTL)
          => last'.session = [deviceID |-> d, last_access |-> now, begin |-> 0]]_vars

\* C8: as long as less than the TTL has passed since a call stored payload P
\* for device D, the lookup for D returns P, also when the cache was full.
C8_LookupAfterStore ==
    (last.stored /\ now - last.time < TTL) =>
        (IF last.op = "tide"
         THEN check_tide_data_cache(tide_data_cache, last.dev, now)
         ELSE check_uv_data_cache(uv_data_cache, last.dev, now)) = last.data

\* a store into a full cache, looked at later within the TTL
C8_Witness ==
    /\ last.stored /\ last.full /\ last.op = "uv"
    /\ last.time < now /\ now - last.time < TTL
    /\ check_uv_data_cache(uv_data_cache, last.dev, now) = last.data

\* C9: uv_sessions holds at most one session per device.
C9_OneSessionPerDevice ==
    \A d \in Devices : Cardinality(SessionsOf(uv_sessions, d)) <= 1

\* both devices have a session and the last call found its own in the list
C9_Witness ==
    /\ Len(uv_sessions) = Cardinality(Devices)
    /\ last.op = "uv" /\ last.session.last_access < last.time
    /\ last.session.deviceID = last.dev

\* C10: two stores into the same cache by concurrent handlers, for different
\* devices, with nothing expired and room in the cache, leave both appended
\* entries in the cache once both have finished.
C10_StoresSerialized ==
    \A g \in Handlers, h \in Handlers :
        (/\ handlers[g].pc = "done" /\ handlers[h].pc = "done"
         /\ handlers[g].kind = handlers[h].kind
         /\ handlers[g].entry.dev # handlers[h].entry.dev
         /\ now - handlers[g].entry.ts < TTL /\ now - handlers[h].entry.ts < TTL)
        => \E i \in 1..Len(CacheOf(handlers[h].kind)) :
              CacheOf(handlers[h].kind)[i] = handlers[h].entry

\* C11: a get_uv_data call that formats a forecast of N records from a session
\* cursor at or past N renders no record, closes with "Forecast complete." and
\* leaves the device's cursor at 0.
C11_StaleCursorCompletes ==
    (/\ last.op = "uv" /\ last.out.kind = "uv_text"
     /\ last.session.begin >= last.data.n)
    => /\ last.out.recs = <<>>
       /\ ~last.out.more
       /\ SessionsOf(uv_sessions, last.dev) # {}
       /\ \A i \in SessionsOf(uv_sessions, last.dev) : uv_sessions[i].begin = 0

\* a cursor of 8 left by a forecast of 10 records has met a refreshed forecast
\* of 4 records
C11_Witness ==
    /\ last.op = "uv" /\ last.out.kind = "uv_text"
    /\ last.session.begin > last.data.n
    /\ last.reqs = 1
    /\ last.out.recs = <<>> /\ ~last.out.more

\* C12: get_uv_risk_string gives "Low" below 3, "Medium" from 3 to below 6,
\* "High" from 6 to below 8, "Very High" from 8 to below 11 and "Extreme" from
\* 11 on; "No data" for an absent value and "Invalid data" for every value
\* that is not a number.
C12_RiskCategory ==
    (probe.fn = "get_uv_risk_string") =>
        LET x == probe.arg
            v == x.v
        IN  /\ probe.out.raised = "none"
            /\ probe.out.risk =
                  IF x = UvNone THEN "No data"
                  ELSE IF ~x.numeric THEN "Invalid data"
                  ELSE IF v < 30 THEN "Low"
                  ELSE IF v < 60 THEN "Medium"
                  ELSE IF v < 80 THEN "High"
                  ELSE IF v < 110 THEN "Very High"
                  ELSE "Extreme"
            /\ (x.numeric /\ v = 29) => probe.out.risk = "Low"
            /\ (x.numeric /\ v = 30) => probe.out.risk = "Medium"
            /\ (x.numeric /\ v = 59) => probe.out.risk = "Medium"
            /\ (x.numeric /\ v = 60) => probe.out.risk = "High"
            /\ (x.numeric /\ v = 79) => probe.out.risk = "High"
            /\ (x.numeric /\ v = 80) => probe.out.risk = "Very High"
            /\ (x.numeric /\ v = 109) => probe.out.risk = "Very High"
            /\ (x.numeric /\ v = 110) => probe.out.risk = "Extreme"

\* C12 for None, numbers and strings only: this much of it holds.
C12_NumbersAndStrings ==
    (probe.fn = "get_uv_risk_string" /\ probe.arg # UvContainer) => C12_RiskCategory

\* C13: get_uv_data over a forecast in which a value of the clear-sky or of
\* the cloudy-sky product is a string that is not a number returns its text,
\* with the risk of that value rendered as "Invalid data"; no exception leaves
\* the call.
C13_NonNumericRendered ==
    (/\ probe.fn \in {"clear_sky", "cloudy_sky"}
     /\ probe.arg.type = "str" /\ ~probe.arg.numeric)
    => /\ probe.out.raised = "none"
       /\ probe.out.risk = "Invalid data"

\* C13 for the cloudy-sky product alone: this much of it holds.
C13_CloudySkyOnly ==
    (/\ probe.fn = "cloudy_sky"
     /\ probe.arg.type = "str" /\ ~probe.arg.numeric)
    => /\ probe.out.raised = "none"
       /\ probe.out.risk = "Invalid data"

\* the cache a lookup recorded in probe has read
Looked == IF probe.fn = "check_tide_data_cache" THEN tide_data_cache ELSE uv_data_cache

\* C14: whatever a cache list holds, the lookup for a device returns the
\* payload of the device's most recently stored non-expired entry, and None
\* exactly when the device has no non-expired entry.
C14_LookupFreshest ==
    (probe.fn \in {"check_tide_data_cache", "check_uv_data_cache"}) =>
        LET live == LiveEntries(Looked, probe.arg, now)
        IN  IF live = {} THEN probe.out = None
            ELSE \E i \in live :
                    /\ \A j \in live : j <= i
                    /\ probe.out = Looked[i].data

\* C14 without "freshest": the lookup returns None exactly when the device
\* has no non-expired entry and otherwise the payload of one of its
\* non-expired entries.  This much of it holds.
C14_LookupLive ==
    (probe.fn \in {"check_tide_data_cache", "check_uv_data_cache"}) =>
        LET live == LiveEntries(Looked, probe.arg, now)
        IN  /\ (probe.out = None) <=> (live = {})
            /\ probe.out # None => \E i \in live : probe.out = Looked[i].data

\* the sessions of a list, as a set
Range(sessions) == {sessions[i] : i \in 1..Len(sessions)}

\* C15: a get_uv_data call that formats N records from cursor begin renders
\* the records [begin, min(begin+4, N)); when begin+4 <= N it closes with "Show
\* More" and leaves the device's cursor at begin+4, otherwise it closes with
\* "Forecast complete." and leaves the cursor at 0.  Nothing else changes a
\* cursor: the passing of time and a call answered with the fetch error leave
\* every session as it was, apart from sessions removed and the caller's
\* session created with cursor 0.  No cursor is negative.
C15_CursorAdvance ==
    [][LET c == last'
           d == c.dev
           b == c.session.begin
           N == c.data.n
           P == uv_records_per_response
       IN  /\ \A i \in 1..Len(uv_sessions') : uv_sessions'[i].begin >= 0
           /\ now' # now => uv_sessions' = uv_sessions
           /\ (now' = now /\ c.op = "uv" /\ c.out.kind = "uv_text") =>
                 /\ c.out.recs = Records(b, Min(b + P, N))
                 /\ c.out.more <=> (b + P <= N)
                 /\ SessionsOf(uv_sessions', d) # {}
                 /\ \A i \in SessionsOf(uv_sessions', d) :
                       uv_sessions'[i].begin = IF b + P <= N THEN b + P ELSE 0
                 /\ \A i \in 1..Len(uv_sessions') :
                       uv_sessions'[i].deviceID # d => uv_sessions'[i] \in Range(uv_sessions)
           /\ (now' = now /\ c.out = ErrorReply) =>
                 \A i \in 1..Len(uv_sessions') :
                     \/ uv_sessions'[i] \in Range(uv_sessions)
                     \/ uv_sessions'[i] = [deviceID |-> d, last_access |-> now, begin |-> 0]
      ]_vars

\* the second window of a 10-record forecast has been rendered and the cursor
\* stands at 8, while the other device's session stands at another cursor
C15_Witness ==
    /\ last.op = "uv" /\ last.out.kind = "uv_text"
    /\ last.session.begin = 4 /\ last.data.n = 10
    /\ last.out.recs = <<4, 5, 6, 7>> /\ last.out.more
    /\ \E i \in SessionsOf(uv_sessions, last.dev) : uv_sessions[i].begin = 8
    /\ \E i \in 1..Len(uv_sessions) :
          uv_sessions[i].deviceID # last.dev /\ uv_sessions[i].begin = 4

\* C16: right after a get_uv_data call, whose session lookup has pruned
\* uv_sessions, no session in the list has been idle for longer than the TTL.
C16_PruneIsFullScan ==
    (last.op = "uv" /\ last.time = now) =>
        \A i \in 1..Len(uv_sessions) : now - uv_sessions[i].last_access <= TTL

\* C17: a get_uv_data call of device D leaves every session of another
\* device as it was, cursor and last access, or removes it, and removes only
\* sessions idle for longer than the TTL; a get_tide_data call changes neither
\* the session list nor the UV cache.
C17_OtherSessionsUntouched ==
    [][(now' = now) =>
          /\ last'.op = "tide" =>
                /\ uv_sessions' = uv_sessions
                /\ uv_data_cache' = uv_data_cache
          /\ last'.op = "uv" =>
                /\ \A i \in 1..Len(uv_sessions') :
                      uv_sessions'[i].deviceID # last'.dev
                          => uv_sessions'[i] \in Range(uv_sessions)
                /\ \A i \in 1..Len(uv_sessions) :
                      (/\ uv_sessions[i].deviceID # last'.dev
                       /\ uv_sessions[i] \notin Range(uv_sessions'))
                          => now - uv_sessions[i].last_access > TTL
      ]_vars

\* device D has just paged while the session of another device, last used
\* earlier and half-way through its forecast, is still in the list, and tide
\* data has been served in between
C17_Witness ==
    /\ last.op = "uv" /\ last.out.kind = "uv_text" /\ last.time = now
    /\ tide_data_cache # <<>>
    /\ \E i \in 1..Len(uv_sessions) :
          /\ uv_sessions[i].deviceID # last.dev
          /\ uv_sessions[i].begin = uv_records_per_response
          /\ uv_sessions[i].last_access < now

\* what is left of the session list and of a cache list in a copy of the
\* system in which only deviceID has made requests
OwnSessions(sessions, deviceID) ==
    LET Own(session) == session.deviceID = deviceID
    IN  SelectSeq(sessions, Own)

OwnEntries(cache, deviceID) ==
    LET Own(entry) == entry.dev = deviceID
    IN  SelectSeq(cache, Own)

\* the reply get_uv_data gives deviceID in that copy when the upstream answers resp
OwnUvReply(deviceID, resp) ==
    LET s == get_uv_session(OwnSessions(uv_sessions, deviceID), deviceID, now)
        r == retrieve_uv_data(OwnEntries(uv_data_cache, deviceID), resp, deviceID, now)
        f == format_uv_data(s.sessions, r.data, deviceID, s.sessions[s.idx].begin, now)
    IN  IF r.data = ERROR_FETCHING_DATA THEN ErrorReply ELSE f.out

\* C18: a payload get_uv_data takes from the cache for device D is the
\* payload of a cache entry of D, and, the cache being below its capacity,
\* the reply D receives is the reply D receives in the copy of the system in
\* which the other devices have made no request.
C18_RepliesIndependentOfOthers ==
    [][(now' = now /\ last'.op = "uv") =>
          LET d == last'.dev
          IN  /\ (last'.reqs = 0) =>
                    \E i \in 1..Len(uv_data_cache) :
                        /\ uv_data_cache[i].dev = d
                        /\ uv_data_cache[i].data = last'.data
              /\ Len(uv_data_cache) < cache_max_records =>
                    \A resp \in UvResponses :
                        LET r == retrieve_uv_data(uv_data_cache, resp, d, now)
                        IN  (r.data = last'.data /\ r.reqs = last'.reqs)
                                => last'.out = OwnUvReply(d, resp)
      ]_vars

\* C18 for the payload alone: what a call serves from a cache is the payload
\* of a live entry of the calling device.  This much of it holds, for both
\* operations.
C18_HitIsOwnEntry ==
    [][(now' = now /\ last'.reqs = 0 /\ last'.op \in {"tide", "uv"}) =>
          \E i \in 1..Len(CacheOf(last'.op)) :
              /\ CacheOf(last'.op)[i].dev = last'.dev
              /\ CacheOf(last'.op)[i].data = last'.data
              /\ now - CacheOf(last'.op)[i].ts < TTL
      ]_vars

\* a get_uv_data call answered with the fetch error has left the pagination
\* state alone: the caller's session is one that was in the list before, with
\* the cursor and last access it had, or one created by this call with cursor
\* 0, and the UV cache is as it was
ErrorLeavesState ==
    (now' = now /\ last'.op = "uv" /\ last'.out = ErrorReply) =>
        /\ uv_data_cache' = uv_data_cache
        /\ SessionsOf(uv_sessions', last'.dev) # {}
        /\ \A i \in SessionsOf(uv_sessions', last'.dev) :
              /\ uv_sessions'[i] = last'.session
              /\ \/ uv_sessions'[i] \in Range(uv_sessions)
                 \/ uv_sessions'[i] = [deviceID |-> last'.dev, last_access |-> now,
                                       begin |-> 0]

\* the device's call that follows one answered with the fetch error returns text
FirstSuccessAfterError ==
    /\ now' = now
    /\ last.op = "uv" /\ last.out = ErrorReply
    /\ last'.op = "uv" /\ last'.dev = last.dev /\ last'.out.kind = "uv_text"

\* it renders the window that starts at the cursor the failed call had
SameWindow ==
    /\ last'.session.begin = last.session.begin
    /\ last'.out.recs = Records(last.session.begin,
                                Min(last.session.begin + uv_records_per_response,
                                    last'.data.n))

C20_PaginationCompletes ==
    \A d \in PagingDevices :
        /\ []<>(/\ last.op = "uv" /\ last.dev = d
                /\ last.out.kind = "uv_text" /\ ~last.out.more)
        /\ []<>(\E i \in SessionsOf(uv_sessions, d) : uv_sessions[i].begin = 0)

\* the third call over a forecast of 10 records has completed it, after the
\* clock has stopped
C20_Witness ==
    /\ now = MaxTicks * TickStep
    /\ last.op = "uv" /\ last.out.kind = "uv_text" /\ last.time = now
    /\ last.data.n = 10 /\ last.session.begin = 8
    /\ last.out.recs = <<8, 9>> /\ ~last.out.more
    /\ \E i \in SessionsOf(uv_sessions, last.dev) : uv_sessions[i].begin = 0

====
